---- MODULE Spec2Model ----
(***************************************************************************)
(* DS1307 real-time-clock driver (src/src/lib.rs) together with the        *)
(* peripheral's seven time-keeping registers and the I2C transport.        *)
(*                                                                         *)
(* A state is the content of the peripheral's registers, the position of   *)
(* the driver (idle, or between the read and the write of set_seconds),    *)
(* and the record of the call in progress or last completed: its argument, *)
(* its result and the bus transactions it issued.                          *)
(*                                                                         *)
(* Every handler that issues one bus transaction is one action.            *)
(* set_seconds issues two transactions; it is two actions, one per         *)
(* transaction, because the bus is free between them.                      *)
(***************************************************************************)
EXTENDS Integers, Sequences, FiniteSets, TLC

VARIABLES
    regs,      \* peripheral registers, address 0..6 -> byte
    pc,        \* "idle" | "set_seconds_write"
    call,      \* the call in progress or last completed
    lastSet,   \* per register: argument of the last successful driver set, NoVal if none / overwritten externally
    ch0,       \* clock-halt bit of the seconds register in the initial state (0 or 128)
    focus,     \* workload of the caller: one register address, or ALL
    pick,      \* the setter argument the caller uses when focus is a register
    remaining  \* calls the caller may still make in workload ALL

vars == <<regs, pc, call, lastSet, ch0, focus, pick, remaining>>

-----------------------------------------------------------------------------
(* Bounds *)

MaxOps == 3          \* calls per behaviour in workload ALL
MinYearArg == 1990   \* smallest u16 year argument tried
MaxYearArg == 2110   \* largest u16 year argument tried

-----------------------------------------------------------------------------
(* u8 arithmetic *)

U8 == 0..255

RECURSIVE BitAnd(_, _)
BitAnd(a, b) ==
    IF a = 0 \/ b = 0 THEN 0
    ELSE (a % 2) * (b % 2) + 2 * BitAnd(a \div 2, b \div 2)

RECURSIVE BitOr(_, _)
BitOr(a, b) ==
    IF a = 0 THEN b
    ELSE IF b = 0 THEN a
    ELSE (IF a % 2 = 1 \/ b % 2 = 1 THEN 1 ELSE 0) + 2 * BitOr(a \div 2, b \div 2)

BitNot(a) == 255 - a

Shl(a, n) == (a * (2 ^ n)) % 256

Shr(a, n) == a \div (2 ^ n)

-----------------------------------------------------------------------------
(* Constants of the driver *)

SECONDS == 0
MINUTES == 1
HOURS == 2
DOW == 3
DOM == 4
MONTH == 5
YEAR == 6

Registers == {SECONDS, MINUTES, HOURS, DOW, DOM, MONTH, YEAR}

H24_H12 == 64
AM_PM == 32
CH == 128

DEVICE_ADDRESS == 104

-----------------------------------------------------------------------------
(* Values, results *)

NoVal == [tag |-> "none", h |-> 0]
Unit == [tag |-> "unit", h |-> 0]
U8Val(n) == [tag |-> "u8", h |-> n]
U16Val(n) == [tag |-> "u16", h |-> n]
H24(n) == [tag |-> "H24", h |-> n]
AM(n) == [tag |-> "AM", h |-> n]
PM(n) == [tag |-> "PM", h |-> n]

Ok(v) == [status |-> "Ok", value |-> v, err |-> "none"]
InvalidInputData == [status |-> "InvalidInputData", value |-> NoVal, err |-> "none"]
I2C(e) == [status |-> "I2C", value |-> NoVal, err |-> e]

\* variant: the transport's error value is replaced by a fixed one
map_err_fixed(r, v) == IF r = "ok" THEN Ok(v) ELSE I2C("nack")

\* .map_err(Error::I2C) applied to the transport's result r ("ok" or an error e)
map_err(r, v) == IF r = "ok" THEN Ok(v) ELSE I2C(r)

-----------------------------------------------------------------------------
(* Transport and peripheral *)

BusErrors == {"nack", "arbitration_loss"}
BusResults == {"ok"} \cup BusErrors

i2c_write(address, payload, r) ==
    [kind |-> "write", addr |-> address, bytes |-> payload, res |-> r]

i2c_write_read(address, payload, r) ==
    [kind |-> "write_read", addr |-> address, bytes |-> payload, res |-> r]

\* register content after the peripheral has seen transaction tx
Store(rs, tx) ==
    IF /\ tx.kind = "write"
       /\ tx.res = "ok"
       /\ tx.addr = DEVICE_ADDRESS
       /\ Len(tx.bytes) = 2
       /\ tx.bytes[1] \in Registers
    THEN [rs EXCEPT ![tx.bytes[1]] = tx.bytes[2]]
    ELSE rs

RECURSIVE StoreAll(_, _)
StoreAll(rs, txs) ==
    IF txs = <<>> THEN rs ELSE StoreAll(Store(rs, Head(txs)), Tail(txs))

\* byte the peripheral returns for a write-then-read of one byte
Fetch(rs, tx) ==
    IF tx.addr = DEVICE_ADDRESS /\ tx.bytes[1] \in Registers
    THEN rs[tx.bytes[1]]
    ELSE 255

-----------------------------------------------------------------------------
(* Codec *)

is_24h_format(hours_data) == BitAnd(hours_data, H24_H12) = 0

is_am(hours_data) == BitAnd(hours_data, AM_PM) = 0

\* variant: the halt bit is left in the value
remove_ch_bit_kept(value) == value

remove_ch_bit(value) == BitAnd(value, BitNot(CH))

\* variant: the tens digit is weighted 16
packed_bcd_to_decimal_hex(bcd) == Shr(bcd, 4) * 16 + BitAnd(bcd, 15)

packed_bcd_to_decimal(bcd) == Shr(bcd, 4) * 10 + BitAnd(bcd, 15)

decimal_to_packed_bcd(dec) == BitOr(Shl(dec \div 10, 4), dec % 10)

-----------------------------------------------------------------------------
(* Private helpers of the driver.  Each yields the result, the bus         *)
(* transactions issued and the (input, output) pairs of                    *)
(* decimal_to_packed_bcd evaluated on the way.                             *)

\* variant: the payload addresses the following register
write_register_next(register, data, r) ==
    [result |-> map_err(r, Unit),
     bus |-> <<i2c_write(DEVICE_ADDRESS, <<register + 1, data>>, r)>>,
     enc |-> <<>>]

write_register(register, data, r) ==
    [result |-> map_err(r, Unit),
     bus |-> <<i2c_write(DEVICE_ADDRESS, <<register, data>>, r)>>,
     enc |-> <<>>]

write_register_decimal(register, decimal_number, r) ==
    [write_register(register, decimal_to_packed_bcd(decimal_number), r)
        EXCEPT !.enc = <<[dec |-> decimal_number,
                          bcd |-> decimal_to_packed_bcd(decimal_number)]>>]

read_register(register, r) ==
    LET tx == i2c_write_read(DEVICE_ADDRESS, <<register>>, r)
    IN  [result |-> map_err(r, U8Val(Fetch(regs, tx))),
         bus |-> <<tx>>,
         enc |-> <<>>]

read_register_decimal(register, r) ==
    LET rd == read_register(register, r)
    IN  IF rd.result.status = "Ok"
        THEN [rd EXCEPT !.result = Ok(U8Val(packed_bcd_to_decimal(rd.result.value.h)))]
        ELSE rd

\* return Err(Error::InvalidInputData) before any transaction
Rejected == [result |-> InvalidInputData, bus |-> <<>>, enc |-> <<>>]

-----------------------------------------------------------------------------
(* Range checks and register composition of the setters *)

\* variant: 60 is accepted
seconds_out_of_range_61(seconds) == seconds > 60

seconds_out_of_range(seconds) == seconds > 59

minutes_out_of_range(minutes) == minutes > 59

hours_out_of_range(hours) ==
    CASE hours.tag = "H24" -> hours.h > 23
      [] hours.tag = "AM"  -> hours.h < 1 \/ hours.h > 12
      [] hours.tag = "PM"  -> hours.h < 1 \/ hours.h > 12

day_of_week_out_of_range(day_of_week) == day_of_week < 1 \/ day_of_week > 7

month_out_of_range(month) == month < 1 \/ month > 12

\* variant: 2100 is accepted
year_out_of_range_2101(year) == year < 2000 \/ year > 2100

year_out_of_range(year) == year < 2000 \/ year > 2099

\* variant: the halt bit read is dropped
seconds_data_no_ch(data, seconds) == decimal_to_packed_bcd(seconds)

\* variant: the byte read is not masked with CH
seconds_data_unmasked(data, seconds) == BitOr(data, decimal_to_packed_bcd(seconds))

\* data & BitFlags::CH | decimal_to_packed_bcd(seconds)
seconds_data(data, seconds) == BitOr(BitAnd(data, CH), decimal_to_packed_bcd(seconds))

hours_am_data(h) == BitOr(H24_H12, decimal_to_packed_bcd(h))

\* variant: the AM/PM bit is not set
hours_pm_data_no_pm(h) == BitOr(H24_H12, decimal_to_packed_bcd(h))

hours_pm_data(h) == BitOr(BitOr(H24_H12, AM_PM), decimal_to_packed_bcd(h))

\* the match of get_hours on the byte read
decode_hours(data) ==
    IF is_24h_format(data)
    THEN H24(packed_bcd_to_decimal(BitAnd(data, BitNot(H24_H12))))
    ELSE IF is_am(data)
    THEN AM(packed_bcd_to_decimal(BitAnd(data, BitNot(BitOr(H24_H12, AM_PM)))))
    ELSE PM(packed_bcd_to_decimal(BitAnd(data, BitNot(BitOr(H24_H12, AM_PM)))))

-----------------------------------------------------------------------------
(* Workloads of the caller.                                                *)
(*   focus = a register: the caller uses that field only, with one         *)
(*     argument pick for the setter; Init draws pick from every value of   *)
(*     the argument's type and the register's previous content.            *)
(*   focus = ALL: the caller mixes all fields, MaxOps calls, arguments at  *)
(*     the edges of the ranges.                                            *)

ALL == YEAR + 1

Callable(register) == focus = register \/ (focus = ALL /\ remaining > 0)

Spend == remaining' = IF focus = ALL THEN remaining - 1 ELSE remaining

Among(register, sample) ==
    IF focus = register THEN {pick}
    ELSE IF focus = ALL /\ remaining > 0 THEN sample
    ELSE {}

SecondsArgs == Among(SECONDS, {U8Val(n) : n \in {0, 25, 59, 60}})
MinutesArgs == Among(MINUTES, {U8Val(n) : n \in {0, 48, 59, 60}})
HoursArgs ==
    Among(HOURS, {H24(0), H24(23), H24(24), AM(0), AM(1), AM(12), AM(13),
                  PM(0), PM(1), PM(12), PM(13)})
DayOfWeekArgs == Among(DOW, {U8Val(n) : n \in {0, 1, 7, 8}})
MonthArgs == Among(MONTH, {U8Val(n) : n \in {0, 1, 12, 13}})
YearArgs == Among(YEAR, {U16Val(n) : n \in {1999, 2000, 2060, 2099, 2100}})

\* every argument of the setter of a register; the day-of-month register
\* has a getter only
AllArgs(register) ==
    IF register = DOM
    THEN {NoVal}
    ELSE IF register = HOURS
    THEN {H24(h) : h \in U8} \cup {AM(h) : h \in U8} \cup {PM(h) : h \in U8}
    ELSE IF register = YEAR
    THEN {U16Val(n) : n \in MinYearArg..MaxYearArg}
    ELSE {U8Val(n) : n \in U8}

\* previous content of the register in focus
OldBytes(register) ==
    IF register = SECONDS THEN U8 ELSE {0, 35, 82, 114, 128, 255}

-----------------------------------------------------------------------------
(* Completion of a call: the caller sees out.result, the peripheral has    *)
(* seen out.bus.  target is the register a setter is for, ALL for getters. *)

\* the public setters of impl DS1307 and the register each one writes
Setters == {"set_seconds", "set_minutes", "set_hours", "set_day_of_week",
            "set_month", "set_year"}

SetterRegister(op) ==
    CASE op = "set_seconds" -> SECONDS
      [] op = "set_minutes" -> MINUTES
      [] op = "set_hours" -> HOURS
      [] op = "set_day_of_week" -> DOW
      [] op = "set_month" -> MONTH
      [] op = "set_year" -> YEAR

Complete(op, arg, out, target) ==
    /\ call' = [op |-> op, arg |-> arg,
                status |-> out.result.status,
                value |-> out.result.value,
                err |-> out.result.err,
                bus |-> (IF pc = "idle" THEN <<>> ELSE call.bus) \o out.bus,
                enc |-> out.enc,
                data |-> IF pc = "idle" THEN NoVal ELSE call.data,
                pre |-> IF pc = "idle" THEN regs ELSE call.pre,
                ext |-> IF pc = "idle" THEN <<>> ELSE call.ext]
    /\ regs' = StoreAll(regs, out.bus)
    /\ lastSet' = IF op \in Setters /\ out.result.status = "Ok"
                  THEN [lastSet EXCEPT ![SetterRegister(op)] = arg]
                  ELSE lastSet
    /\ pc' = "idle"
    /\ UNCHANGED <<ch0, focus, pick>>

-----------------------------------------------------------------------------
(* Getters *)

get_seconds(r) ==
    /\ pc = "idle" /\ Callable(SECONDS) /\ Spend
    /\ LET rd == read_register(SECONDS, r)
       IN  Complete("get_seconds", NoVal,
                    IF rd.result.status = "Ok"
                    THEN [rd EXCEPT !.result =
                            Ok(U8Val(packed_bcd_to_decimal(remove_ch_bit(rd.result.value.h))))]
                    ELSE rd,
                    ALL)

get_minutes(r) ==
    /\ pc = "idle" /\ Callable(MINUTES) /\ Spend
    /\ Complete("get_minutes", NoVal, read_register_decimal(MINUTES, r), ALL)

get_hours(r) ==
    /\ pc = "idle" /\ Callable(HOURS) /\ Spend
    /\ LET rd == read_register(HOURS, r)
       IN  Complete("get_hours", NoVal,
                    IF rd.result.status = "Ok"
                    THEN [rd EXCEPT !.result = Ok(decode_hours(rd.result.value.h))]
                    ELSE rd,
                    ALL)

get_day_of_week(r) ==
    /\ pc = "idle" /\ Callable(DOW) /\ Spend
    /\ Complete("get_day_of_week", NoVal, read_register_decimal(DOW, r), ALL)

get_day_of_month(r) ==
    /\ pc = "idle" /\ Callable(DOM) /\ Spend
    /\ Complete("get_day_of_month", NoVal, read_register_decimal(DOM, r), ALL)

get_month(r) ==
    /\ pc = "idle" /\ Callable(MONTH) /\ Spend
    /\ Complete("get_month", NoVal, read_register_decimal(MONTH, r), ALL)

get_year(r) ==
    /\ pc = "idle" /\ Callable(YEAR) /\ Spend
    /\ LET rd == read_register_decimal(YEAR, r)
       IN  Complete("get_year", NoVal,
                    IF rd.result.status = "Ok"
                    THEN [rd EXCEPT !.result = Ok(U16Val(2000 + rd.result.value.h))]
                    ELSE rd,
                    ALL)

-----------------------------------------------------------------------------
(* Setters *)

\* set_seconds up to and including its read of the seconds register
set_seconds(seconds, r) ==
    /\ pc = "idle" /\ U8Val(seconds) \in SecondsArgs /\ Spend
    /\ IF seconds_out_of_range(seconds)
       THEN Complete("set_seconds", U8Val(seconds), Rejected, SECONDS)
       ELSE LET rd == read_register(SECONDS, r)
            IN  IF rd.result.status = "Ok"
                THEN /\ call' = [op |-> "set_seconds", arg |-> U8Val(seconds),
                                 status |-> "running", value |-> NoVal, err |-> "none",
                                 bus |-> rd.bus, enc |-> <<>>,
                                 data |-> rd.result.value,
                                 pre |-> regs, ext |-> <<>>]
                     /\ pc' = "set_seconds_write"
                     /\ UNCHANGED <<regs, lastSet, ch0, focus, pick>>
                ELSE Complete("set_seconds", U8Val(seconds), rd, SECONDS)

\* set_seconds from the value read to its return
set_seconds_write(r) ==
    /\ pc = "set_seconds_write"
    /\ UNCHANGED remaining
    /\ LET seconds == call.arg.h
           wr == write_register(SECONDS, seconds_data(call.data.h, seconds), r)
       IN  Complete("set_seconds", call.arg,
                    [wr EXCEPT !.enc = <<[dec |-> seconds,
                                          bcd |-> decimal_to_packed_bcd(seconds)]>>],
                    SECONDS)

set_minutes(minutes, r) ==
    /\ pc = "idle" /\ U8Val(minutes) \in MinutesArgs /\ Spend
    /\ Complete("set_minutes", U8Val(minutes),
                IF minutes_out_of_range(minutes) THEN Rejected
                ELSE write_register_decimal(MINUTES, minutes, r),
                MINUTES)

set_hours(hours, r) ==
    /\ pc = "idle" /\ hours \in HoursArgs /\ Spend
    /\ Complete("set_hours", hours,
                IF hours_out_of_range(hours) THEN Rejected
                ELSE CASE hours.tag = "H24" ->
                            write_register_decimal(HOURS, hours.h, r)
                       [] hours.tag = "AM" ->
                            [write_register(HOURS, hours_am_data(hours.h), r)
                                EXCEPT !.enc = <<[dec |-> hours.h,
                                                  bcd |-> decimal_to_packed_bcd(hours.h)]>>]
                       [] hours.tag = "PM" ->
                            [write_register(HOURS, hours_pm_data(hours.h), r)
                                EXCEPT !.enc = <<[dec |-> hours.h,
                                                  bcd |-> decimal_to_packed_bcd(hours.h)]>>],
                HOURS)

set_day_of_week(day_of_week, r) ==
    /\ pc = "idle" /\ U8Val(day_of_week) \in DayOfWeekArgs /\ Spend
    /\ Complete("set_day_of_week", U8Val(day_of_week),
                IF day_of_week_out_of_range(day_of_week) THEN Rejected
                ELSE write_register(DOW, day_of_week, r),
                DOW)

set_month(month, r) ==
    /\ pc = "idle" /\ U8Val(month) \in MonthArgs /\ Spend
    /\ Complete("set_month", U8Val(month),
                IF month_out_of_range(month) THEN Rejected
                ELSE write_register_decimal(MONTH, month, r),
                MONTH)

set_year(year, r) ==
    /\ pc = "idle" /\ U16Val(year) \in YearArgs /\ Spend
    /\ Complete("set_year", U16Val(year),
                IF year_out_of_range(year) THEN Rejected
                ELSE write_register_decimal(YEAR, (year - 2000) % 256, r),
                YEAR)

-----------------------------------------------------------------------------
(* Another party on the bus writes byte b to the seconds register *)

ExtBytes == {37, 165}

MaxExt == 1   \* external writes between the read and the write of one set_seconds

ExternalWrite(b) ==
    /\ focus = ALL
    /\ IF pc = "idle"
       THEN remaining > 0 /\ Spend /\ UNCHANGED call
       ELSE /\ Len(call.ext) < MaxExt
            /\ call' = [call EXCEPT !.ext = Append(@, b)]
            /\ UNCHANGED remaining
    /\ regs' = [regs EXCEPT ![SECONDS] = b]
    /\ lastSet' = [lastSet EXCEPT ![SECONDS] = NoVal]
    /\ UNCHANGED <<pc, ch0, focus, pick>>

-----------------------------------------------------------------------------
(* Specifications *)

NoCall == [op |-> "none", arg |-> NoVal, status |-> "none", value |-> NoVal,
           err |-> "none", bus |-> <<>>, enc |-> <<>>, data |-> NoVal,
           pre |-> [a \in Registers |-> 0], ext |-> <<>>]

Init ==
    /\ focus \in Registers \cup {ALL}
    /\ IF focus = ALL
       THEN /\ pick = NoVal
            /\ \E b \in {0, CH} : regs = [a \in Registers |-> IF a = SECONDS THEN b ELSE 0]
            /\ remaining = MaxOps
       ELSE /\ pick \in AllArgs(focus)
            /\ \E b \in OldBytes(focus) : regs = [a \in Registers |-> IF a = focus THEN b ELSE 0]
            /\ remaining = 0
    /\ ch0 = BitAnd(regs[SECONDS], CH)
    /\ pc = "idle"
    /\ call = NoCall
    /\ lastSet = [a \in Registers |-> NoVal]

Next ==
    \/ \E r \in BusResults : get_seconds(r)
    \/ \E r \in BusResults : get_minutes(r)
    \/ \E r \in BusResults : get_hours(r)
    \/ \E r \in BusResults : get_day_of_week(r)
    \/ \E r \in BusResults : get_day_of_month(r)
    \/ \E r \in BusResults : get_month(r)
    \/ \E r \in BusResults : get_year(r)
    \/ \E a \in SecondsArgs, r \in BusResults : set_seconds(a.h, r)
    \/ \E r \in BusResults : set_seconds_write(r)
    \/ \E a \in MinutesArgs, r \in BusResults : set_minutes(a.h, r)
    \/ \E hours \in HoursArgs, r \in BusResults : set_hours(hours, r)
    \/ \E a \in DayOfWeekArgs, r \in BusResults : set_day_of_week(a.h, r)
    \/ \E a \in MonthArgs, r \in BusResults : set_month(a.h, r)
    \/ \E a \in YearArgs, r \in BusResults : set_year(a.h, r)

Spec == Init /\ [][Next]_vars

NextExt ==
    \/ Next
    \/ \E b \in ExtBytes : ExternalWrite(b)

\* the caller mixing all fields, with another party on the bus
InitExt == Init /\ focus = ALL

SpecExt == InitExt /\ [][NextExt]_vars

-----------------------------------------------------------------------------
(* Register layout of the peripheral as documented, stated arithmetically  *)
(* and independently of the driver's codec.                                *)

Bcd(d) == (d \div 10) * 16 + (d % 10)

HaltBit(b) == (b \div 128) * 128

Getters == {"get_seconds", "get_minutes", "get_hours", "get_day_of_week",
            "get_day_of_month", "get_month", "get_year"}

PlainSetters == {"set_minutes", "set_hours", "set_day_of_week",
                 "set_month", "set_year"}

RegisterOf(op) ==
    CASE op \in {"get_seconds", "set_seconds"} -> 0
      [] op \in {"get_minutes", "set_minutes"} -> 1
      [] op \in {"get_hours", "set_hours"} -> 2
      [] op \in {"get_day_of_week", "set_day_of_week"} -> 3
      [] op = "get_day_of_month" -> 4
      [] op \in {"get_month", "set_month"} -> 5
      [] op \in {"get_year", "set_year"} -> 6

\* documented range of a setter's argument
InRange(op, arg) ==
    CASE op = "set_seconds" -> arg.h \in 0..59
      [] op = "set_minutes" -> arg.h \in 0..59
      [] op = "set_hours" -> IF arg.tag = "H24" THEN arg.h \in 0..23 ELSE arg.h \in 1..12
      [] op = "set_day_of_week" -> arg.h \in 1..7
      [] op = "set_month" -> arg.h \in 1..12
      [] op = "set_year" -> arg.h \in 2000..2099

\* byte a plain setter stores for an in-range argument
Encoded(op, arg) ==
    CASE op = "set_minutes" -> Bcd(arg.h)
      [] op = "set_hours" ->
            (IF arg.tag = "H24" THEN 0 ELSE IF arg.tag = "AM" THEN 64 ELSE 96) + Bcd(arg.h)
      [] op = "set_day_of_week" -> arg.h
      [] op = "set_month" -> Bcd(arg.h)
      [] op = "set_year" -> Bcd(arg.h - 2000)

Returned == pc = "idle" /\ call.op # "none"

ReadOf(register, res) ==
    [kind |-> "write_read", addr |-> 104, bytes |-> <<register>>, res |-> res]

WriteOf(register, byte, res) ==
    [kind |-> "write", addr |-> 104, bytes |-> <<register, byte>>, res |-> res]

-----------------------------------------------------------------------------
\* C1: a setter of lib.rs (set_seconds, set_minutes, set_hours,
\* set_day_of_week, set_month, set_year) called with an argument outside its
\* documented range returns InvalidInputData, has issued no bus transaction
\* (set_seconds not even its read) and leaves every register as it was.
C1_InvalidInputRejected ==
    (/\ call.op \in {"set_seconds", "set_minutes", "set_hours",
                     "set_day_of_week", "set_month", "set_year"}
     /\ ~InRange(call.op, call.arg))
    => /\ pc = "idle"
       /\ call.status = "InvalidInputData"
       /\ call.bus = <<>>
       /\ regs = call.pre

C1_Witness ==
    /\ Returned
    /\ call.op = "set_hours" /\ call.arg = PM(13)
    /\ call.status = "InvalidInputData"
    /\ regs[HOURS] = 114

\* C2: set_seconds(s), s in 0..59, writes exactly (old & 0x80) | BCD(s) where
\* old is the seconds register before the call, and with no other party on
\* the bus bit 7 of the seconds register always equals its initial value.
C2_ClockHaltPreserved ==
    /\ (call.op = "set_seconds" /\ Len(call.bus) = 2)
        => /\ call.arg.h \in 0..59
           /\ call.bus[2].kind = "write"
           /\ call.bus[2].bytes =
                 <<0, HaltBit(call.pre[SECONDS]) + Bcd(call.arg.h)>>
    /\ (Returned /\ call.op = "set_seconds" /\ call.status = "Ok")
        => regs[SECONDS] = HaltBit(call.pre[SECONDS]) + Bcd(call.arg.h)
    /\ HaltBit(regs[SECONDS]) = ch0

C2_Witness ==
    /\ Returned
    /\ call.op = "set_seconds" /\ call.arg.h = 59 /\ call.status = "Ok"
    /\ call.pre[SECONDS] = 128
    /\ regs[SECONDS] = 217

\* C3: for every valid Hours value and whatever the hours register held,
\* set_hours writes BCD(h) with bit 6 clear for H24, 0x40 | BCD(h) for AM and
\* 0x60 | BCD(h) for PM, and a get_hours reading that byte returns the same
\* tag and the same h.
C3_HoursRoundTrip ==
    /\ (call.op = "set_hours" /\ InRange("set_hours", call.arg))
        => /\ Len(call.bus) = 1
           /\ call.bus[1].kind = "write"
           /\ call.bus[1].bytes = <<2, Encoded("set_hours", call.arg)>>
           /\ call.arg.tag = "H24" => (call.bus[1].bytes[2] \div 64) % 2 = 0
           /\ call.status = "Ok" => regs[HOURS] = Encoded("set_hours", call.arg)
    /\ (Returned /\ call.op = "get_hours" /\ call.status = "Ok"
            /\ lastSet[HOURS] # NoVal)
        => call.value = lastSet[HOURS]

C3_Witness ==
    /\ Returned
    /\ call.op = "get_hours" /\ call.status = "Ok"
    /\ lastSet[HOURS] = PM(12)
    /\ call.value = PM(12)
    /\ regs[HOURS] = 114

\* C4: against a peripheral that stores the byte written, a getter that
\* follows a successful setter of the same field returns the value set:
\* seconds with the halt bit 0 or 1, minutes, day of week, month, year.
C4_SetGetRoundTrip ==
    (/\ Returned
     /\ call.op \in {"get_seconds", "get_minutes", "get_day_of_week",
                     "get_month", "get_year"}
     /\ call.status = "Ok"
     /\ lastSet[RegisterOf(call.op)] # NoVal)
    => /\ call.value = lastSet[RegisterOf(call.op)]
       /\ InRange(CASE call.op = "get_seconds" -> "set_seconds"
                    [] call.op = "get_minutes" -> "set_minutes"
                    [] call.op = "get_day_of_week" -> "set_day_of_week"
                    [] call.op = "get_month" -> "set_month"
                    [] call.op = "get_year" -> "set_year",
                  call.value)

C4_Witness ==
    /\ Returned
    /\ call.op = "get_seconds" /\ call.status = "Ok"
    /\ lastSet[SECONDS] = U8Val(59)
    /\ regs[SECONDS] = 217
    /\ call.value = U8Val(59)

\* C5: a successful getter issues exactly one write-then-read to 0x68 whose
\* payload is its register address; a successful setter other than
\* set_seconds exactly one write to 0x68 of [register address, encoded
\* value]; set_seconds with a valid argument a read of register 0 and then,
\* completing, one write to register 0.  No call addresses or changes
\* another field's register.
C5_TransactionShape ==
    /\ (Returned /\ call.op \in Getters /\ call.status = "Ok")
        => call.bus = <<ReadOf(RegisterOf(call.op), "ok")>>
    /\ (Returned /\ call.op \in PlainSetters /\ call.status = "Ok")
        => call.bus = <<WriteOf(RegisterOf(call.op), Encoded(call.op, call.arg), "ok")>>
    /\ (call.op = "set_seconds" /\ InRange("set_seconds", call.arg))
        => /\ Len(call.bus) \in 1..2
           /\ call.bus[1].kind = "write_read"
           /\ call.bus[1].bytes = <<0>>
           /\ Len(call.bus) = 2 =>
                 /\ call.bus[1].res = "ok"
                 /\ call.bus[2].kind = "write"
                 /\ Len(call.bus[2].bytes) = 2
                 /\ call.bus[2].bytes[1] = 0
           /\ (Returned /\ call.status = "Ok") =>
                 /\ Len(call.bus) = 2
                 /\ call.bus[2].res = "ok"
    /\ call.op # "none" =>
          /\ \A i \in 1..Len(call.bus) :
                /\ call.bus[i].addr = 104
                /\ call.bus[i].bytes[1] = RegisterOf(call.op)
          /\ \A a \in Registers : a # RegisterOf(call.op) => regs[a] = call.pre[a]

C5_Witness ==
    /\ Returned
    /\ call.op = "set_minutes" /\ call.status = "Ok"
    /\ call.bus = <<WriteOf(1, 89, "ok")>>
    /\ regs[HOURS] = 114
    /\ regs[MINUTES] = 89

\* C6: the driver exposes a day-of-month setter, one of seven setters,
\* that for every v in 1..31 issues exactly one write transaction
\* [0x04, BCD(v)] and for v = 0 or v >= 32 returns InvalidInputData and
\* issues no transaction.
C6_DayOfMonthSetter ==
    /\ Cardinality(Setters) = 7
    /\ \E op \in Setters : SetterRegister(op) = 4
    /\ \A op \in Setters :
          (SetterRegister(op) = 4 /\ call.op = op)
          => IF call.arg.h \in 1..31
             THEN /\ Len(call.bus) = 1
                  /\ call.bus[1].kind = "write"
                  /\ call.bus[1].addr = 104
                  /\ call.bus[1].bytes = <<4, Bcd(call.arg.h)>>
             ELSE /\ call.status = "InvalidInputData"
                  /\ call.bus = <<>>

\* C7: for every decimal d in 0..99 that the driver encodes,
\* decimal_to_packed_bcd(d) is ((d / 10) << 4) | (d % 10) and
\* packed_bcd_to_decimal of that byte is d again.
C7_BcdRoundTrip ==
    \A i \in 1..Len(call.enc) :
        call.enc[i].dec \in 0..99
        => /\ call.enc[i].bcd = Bcd(call.enc[i].dec)
           /\ packed_bcd_to_decimal(call.enc[i].bcd) = call.enc[i].dec

C7_Witness ==
    /\ call.op = "set_year"
    /\ call.enc = <<[dec |-> 99, bcd |-> 153]>>

\* C8: a bus transaction that fails with error e is the last one of its
\* call, and the call returns I2C(e), never InvalidInputData or
\* InternalError; when the read inside set_seconds fails no write is issued
\* and the seconds register is unchanged.
C8_TransportErrorPropagated ==
    /\ \A i \in 1..Len(call.bus) :
          call.bus[i].res # "ok"
          => /\ i = Len(call.bus)
             /\ pc = "idle"
             /\ call.status = "I2C"
             /\ call.err = call.bus[i].res
    /\ call.status = "I2C" =>
          /\ call.bus # <<>>
          /\ call.bus[Len(call.bus)].res = call.err
          /\ call.err \in BusErrors
    /\ call.status # "InternalError"
    /\ (call.op = "set_seconds" /\ call.bus # <<>> /\ call.bus[1].res # "ok")
        => /\ Len(call.bus) = 1
           /\ regs[SECONDS] = call.pre[SECONDS]

C8_Witness ==
    /\ Returned
    /\ call.op = "set_seconds" /\ call.arg.h = 59
    /\ call.bus = <<ReadOf(0, "arbitration_loss")>>
    /\ call.status = "I2C" /\ call.err = "arbitration_loss"

\* C9 as stated: in every call from set_seconds, set_minutes, set_hours,
\* set_month or set_year with an accepted argument, the argument passed to
\* decimal_to_packed_bcd is never greater than 59.
C9_EncoderArgumentAtMost59 ==
    call.op \in {"set_seconds", "set_minutes", "set_hours", "set_month", "set_year"}
    => \A i \in 1..Len(call.enc) : call.enc[i].dec <= 59

\* C9 amended: the argument passed to decimal_to_packed_bcd by these setters
\* is never greater than 99; it exceeds 59 only in set_year, which passes
\* year - 2000.
C9_EncoderArgumentAtMost99 ==
    call.op \in {"set_seconds", "set_minutes", "set_hours", "set_month", "set_year"}
    => \A i \in 1..Len(call.enc) :
          /\ call.enc[i].dec \in 0..99
          /\ call.op # "set_year" => call.enc[i].dec <= 59
          /\ call.op = "set_year" => call.enc[i].dec = call.arg.h - 2000

C9_Witness ==
    /\ Returned
    /\ call.op = "set_year" /\ call.arg.h = 2099 /\ call.status = "Ok"
    /\ call.enc[1].dec = 99

\* C10: when another party writes the seconds register between the read
\* and the write of set_seconds(s), the write of set_seconds overwrites it:
\* the register then holds (halt bit as read) | BCD(s), whatever the other
\* party wrote, and set_seconds returns Ok.
C10_ExternalWriteOverwritten ==
    [][(/\ pc = "set_seconds_write" /\ pc' = "idle"
        /\ call.ext # <<>>
        /\ call'.bus[Len(call'.bus)].res = "ok")
       => /\ call'.status = "Ok"
          /\ call'.ext = call.ext
          /\ regs'[SECONDS] = HaltBit(call.data.h) + Bcd(call.arg.h)]_vars

C10_Witness ==
    /\ Returned
    /\ call.op = "set_seconds" /\ call.arg.h = 59 /\ call.status = "Ok"
    /\ call.data = U8Val(0)
    /\ call.ext = <<165>>
    /\ regs[SECONDS] = 89

====
